---- MODULE Spec2Model ----
(***************************************************************************)
(* Model of the teaching-opinion generator: the React front end (App,      *)
(* StudentInfoForm, ModelSelector, useKeyboardShortcuts, the axios client) *)
(* and, from the design document, the back end's model resolution and      *)
(* response parsing.                                                       *)
(*                                                                         *)
(* Text is a sequence of one-character strings, so that slice, trim and    *)
(* parseInt are computed character by character.  A nullable value is a    *)
(* sequence of length at most one: <<>> is null, <<v>> is the value v.     *)
(***************************************************************************)
EXTENDS Integers, Sequences, FiniteSets, TLC

VARIABLES
    studentInfo,   \* App: the form's record
    opinions,      \* App: the stored list of opinions
    isLoading,     \* App: a generate request is being waited for
    error,         \* App: null or the message shown
    pending,       \* the POST /generate-opinions promises not yet settled
    lastRequest,   \* null or the body of the most recent POST /generate-opinions
    copying,       \* number of clipboard writes not yet settled
    invoked,       \* the callbacks the last keydown called, in order
    lastKey,       \* null or the last keydown event
    focus,         \* the input that holds the focus
    models,        \* ModelSelector: the list shown
    msLoading,     \* ModelSelector: isLoading
    msError,       \* ModelSelector: error
    fetching,      \* the GET /available-models promise is not yet settled
    svc            \* the back end's request being served (design document)

appVars == <<studentInfo, opinions, isLoading, error, pending, lastRequest, copying>>
kbVars == <<invoked, lastKey, focus>>
msVars == <<models, msLoading, msError, fetching>>
vars == <<studentInfo, opinions, isLoading, error, pending, lastRequest, copying,
          invoked, lastKey, focus, models, msLoading, msError, fetching, svc>>

----------------------------------------------------------------------------
(* Bounds of the model *)

\* POST promises outstanding at once
MaxPending == 2
\* clipboard writes outstanding at once
MaxCopies == 1
\* how many of SUBJECTS and of PERSONALITY_TRAITS the form's specification toggles
NumSubjects == 3
NumTraits == 2
\* how long a list of models the server may answer
MaxModels == 3
\* how many entries a provider's answer may hold
MaxItems == 6
\* how many characters beyond the limit a typed text may have
MaxOverflow == 2

----------------------------------------------------------------------------
(* Program constants *)

NAME_MAX == 5
CHAR_MAX == 40
LEN_MIN == 50
LEN_MAX == 100
LEN_DEFAULT == 75

SUBJECTS == <<"korean", "english", "math", "science", "social",
              "history", "pe", "music", "art", "tech">>
PERSONALITY_TRAITS == <<"calm", "active", "sociable", "introvert", "diligent",
                        "creative", "leadership", "cooperative", "independent", "curious">>

Null == <<>>
Some(v) == <<v>>

MSG_MIN_ONE_FIELD == "at least one field must be filled in"
MSG_CLIPBOARD == "copying to the clipboard failed"
MSG_REQUEST_FAILED == "an error occurred while processing the request"
MSG_NO_CONNECTION == "cannot connect to the server"
MSG_SETUP == "an error occurred while setting up the request"

----------------------------------------------------------------------------
(* String functions of the language, on sequences of characters *)

WhiteSpace == {" ", "\t", "\n"}

Min(a, b) == IF a < b THEN a ELSE b
Max(a, b) == IF a > b THEN a ELSE b

\* s.slice(0, n)
Slice(s, n) == SubSeq(s, 1, Min(n, Len(s)))

RECURSIVE TrimStart(_)
TrimStart(s) ==
    IF s # <<>> /\ Head(s) \in WhiteSpace THEN TrimStart(Tail(s)) ELSE s

RECURSIVE TrimEnd(_)
TrimEnd(s) ==
    IF s # <<>> /\ s[Len(s)] \in WhiteSpace
    THEN TrimEnd(SubSeq(s, 1, Len(s) - 1))
    ELSE s

\* s.trim()
Trim(s) == TrimEnd(TrimStart(s))

\* n copies of the character c
Rep(c, n) == [i \in 1..n |-> c]

HexDigits == <<"0", "1", "2", "3", "4", "5", "6", "7", "8", "9",
               "a", "b", "c", "d", "e", "f">>

IsDigit(c, radix) == \E d \in 1..radix : HexDigits[d] = c
DigitVal(c) == (CHOOSE d \in 1..16 : HexDigits[d] = c) - 1

\* the value of the longest prefix of s made of digits of the radix, after acc
RECURSIVE DigitRun(_, _, _)
DigitRun(s, radix, acc) ==
    IF s # <<>> /\ IsDigit(Head(s), radix)
    THEN DigitRun(Tail(s), radix, acc * radix + DigitVal(Head(s)))
    ELSE acc

\* parseInt(str): leading white space, a sign, an optional 0x, then digits;
\* NaN when no digit follows
ParseInt(str) ==
    LET t == TrimStart(str)
        signed == t # <<>> /\ Head(t) \in {"-", "+"}
        sign == IF t # <<>> /\ Head(t) = "-" THEN -1 ELSE 1
        u == IF signed THEN Tail(t) ELSE t
        hex == Len(u) >= 2 /\ u[1] = "0" /\ u[2] = "x"
        radix == IF hex THEN 16 ELSE 10
        body == IF hex THEN SubSeq(u, 3, Len(u)) ELSE u
    IN  IF body = <<>> \/ ~IsDigit(Head(body), radix)
        THEN [nan |-> TRUE, val |-> 0]
        ELSE [nan |-> FALSE, val |-> sign * DigitRun(body, radix, 0)]

\* array.includes(item)
Includes(array, item) == \E i \in 1..Len(array) : array[i] = item

\* array.filter((i) => i !== item)
Without(array, item) == SelectSeq(array, LAMBDA i : i # item)

----------------------------------------------------------------------------
(* App: state after construction *)

initialStudentInfo ==
    [name |-> <<>>,
     goodSubjects |-> <<>>,
     weakSubjects |-> <<>>,
     personality |-> <<>>,
     characteristics |-> <<>>,
     targetLength |-> LEN_DEFAULT,
     modelName |-> "gemini-2.5-flash"]

InitApp ==
    /\ studentInfo = initialStudentInfo
    /\ opinions = <<>>
    /\ isLoading = FALSE
    /\ error = Null
    /\ pending = {}
    /\ lastRequest = Null
    /\ copying = 0

InitKeyboard ==
    /\ invoked = <<>>
    /\ lastKey = Null
    /\ focus = "none"

InitModelSelector ==
    /\ models = <<>>
    /\ msLoading = TRUE
    /\ msError = Null
    /\ fetching = TRUE

----------------------------------------------------------------------------
(* StudentInfoForm: the change handlers *)

toggleArrayItem(array, item) ==
    IF Includes(array, item) THEN Without(array, item) ELSE Append(array, item)

\* handleSubjectToggle without the filter on the other list
SubjectToggledOneList(prev, subject, type) ==
    IF type = "good"
    THEN [prev EXCEPT !.goodSubjects = toggleArrayItem(prev.goodSubjects, subject)]
    ELSE [prev EXCEPT !.weakSubjects = toggleArrayItem(prev.weakSubjects, subject)]

SubjectToggled(prev, subject, type) ==
    IF type = "good"
    THEN [prev EXCEPT !.goodSubjects = toggleArrayItem(prev.goodSubjects, subject),
                      !.weakSubjects = Without(prev.weakSubjects, subject)]
    ELSE [prev EXCEPT !.weakSubjects = toggleArrayItem(prev.weakSubjects, subject),
                      !.goodSubjects = Without(prev.goodSubjects, subject)]

FormUnchanged == UNCHANGED <<opinions, isLoading, error, pending, lastRequest, copying,
                             invoked, lastKey, focus, models, msLoading, msError,
                             fetching, svc>>

handleSubjectToggle(subject, type) ==
    /\ studentInfo' = SubjectToggled(studentInfo, subject, type)
    /\ FormUnchanged

handlePersonalityToggle(trait) ==
    /\ studentInfo' = [studentInfo EXCEPT
                         !.personality = toggleArrayItem(studentInfo.personality, trait)]
    /\ FormUnchanged

\* the reset buttons are disabled while their list is empty
handleResetGoodSubjects ==
    /\ studentInfo.goodSubjects # <<>>
    /\ studentInfo' = [studentInfo EXCEPT !.goodSubjects = <<>>]
    /\ FormUnchanged

handleResetWeakSubjects ==
    /\ studentInfo.weakSubjects # <<>>
    /\ studentInfo' = [studentInfo EXCEPT !.weakSubjects = <<>>]
    /\ FormUnchanged

handleResetPersonality ==
    /\ studentInfo.personality # <<>>
    /\ studentInfo' = [studentInfo EXCEPT !.personality = <<>>]
    /\ FormUnchanged

\* the name's onChange without the slice
NameUncut(typed) == typed

\* e.target.value.slice(0, 5)
NameValue(typed) == Slice(typed, NAME_MAX)

NameChange(typed) ==
    /\ studentInfo' = [studentInfo EXCEPT !.name = NameValue(typed)]
    /\ FormUnchanged

\* e.target.value.slice(0, 40)
CharacteristicsValue(typed) == Slice(typed, CHAR_MAX)

CharacteristicsChange(typed) ==
    /\ studentInfo' = [studentInfo EXCEPT !.characteristics = CharacteristicsValue(typed)]
    /\ FormUnchanged

\* parseInt(e.target.value) || 75: NaN and 0 are falsy
LengthValue(typed) ==
    LET parsed == ParseInt(typed)
    IN  IF parsed.nan \/ parsed.val = 0 THEN LEN_DEFAULT ELSE parsed.val

\* the length's onChange without Math.min
LengthWithoutMin(typed) == Max(LengthValue(typed), LEN_MIN)

\* Math.min(Math.max(value, 50), 100)
ClampedLength(typed) == Min(Max(LengthValue(typed), LEN_MIN), LEN_MAX)

LengthChange(typed) ==
    /\ studentInfo' = [studentInfo EXCEPT !.targetLength = ClampedLength(typed)]
    /\ FormUnchanged

----------------------------------------------------------------------------
(* App: the handlers, as changes of the App's state *)

\* hasInput without the trims
HasInputUntrimmed(info) ==
    \/ info.name # <<>>
    \/ Len(info.goodSubjects) > 0
    \/ Len(info.weakSubjects) > 0
    \/ Len(info.personality) > 0
    \/ info.characteristics # <<>>

HasInput(info) ==
    \/ Trim(info.name) # <<>>
    \/ Len(info.goodSubjects) > 0
    \/ Len(info.weakSubjects) > 0
    \/ Len(info.personality) > 0
    \/ Trim(info.characteristics) # <<>>

\* s || null
OrNull(s) == IF s = <<>> THEN Null ELSE Some(s)

RequestBody(info) ==
    [name |-> OrNull(Trim(info.name)),
     good_subjects |-> info.goodSubjects,
     weak_subjects |-> info.weakSubjects,
     personality |-> info.personality,
     characteristics |-> OrNull(Trim(info.characteristics)),
     target_length |-> info.targetLength,
     model_name |-> info.modelName]

\* the promises are told apart by a number, the smallest not in use
RequestIds == 1..MaxPending
FreshRequest == CHOOSE r \in RequestIds \ pending : \A q \in RequestIds \ pending : r <= q

\* handleGenerate up to its await: the validation, then the POST
handleGenerate ==
    IF ~HasInput(studentInfo)
    THEN /\ error' = Some(MSG_MIN_ONE_FIELD)
         /\ UNCHANGED <<studentInfo, opinions, isLoading, pending, lastRequest, copying>>
    ELSE /\ Cardinality(pending) < MaxPending
         /\ isLoading' = TRUE
         /\ error' = Null
         /\ pending' = pending \cup {FreshRequest}
         /\ lastRequest' = Some(RequestBody(studentInfo))
         /\ UNCHANGED <<studentInfo, opinions, copying>>

\* handleRefresh without its test of opinions.length
handleRefreshUnguarded == handleGenerate

handleRefresh ==
    IF Len(opinions) > 0 THEN handleGenerate ELSE UNCHANGED appVars

\* handleReset without its setOpinions and setError
handleResetFormOnly ==
    /\ studentInfo' = initialStudentInfo
    /\ UNCHANGED <<opinions, error, isLoading, pending, lastRequest, copying>>

handleReset ==
    /\ studentInfo' = initialStudentInfo
    /\ opinions' = <<>>
    /\ error' = Null
    /\ UNCHANGED <<isLoading, pending, lastRequest, copying>>

\* a string is truthy when it is not empty; index counts from 0
HasOpinion(index) == index + 1 \in 1..Len(opinions) /\ opinions[index + 1] # ""

handleCopyOpinion(index) ==
    IF HasOpinion(index)
    THEN /\ copying < MaxCopies
         /\ copying' = copying + 1
         /\ UNCHANGED <<studentInfo, opinions, isLoading, error, pending, lastRequest>>
    ELSE UNCHANGED appVars

\* navigator.clipboard.writeText settles
ClipboardResolves ==
    /\ copying > 0
    /\ copying' = copying - 1
    /\ UNCHANGED <<studentInfo, opinions, isLoading, error, pending, lastRequest>>
    /\ UNCHANGED <<kbVars, msVars, svc>>

ClipboardRejects ==
    /\ copying > 0
    /\ copying' = copying - 1
    /\ error' = Some(MSG_CLIPBOARD)
    /\ UNCHANGED <<studentInfo, opinions, isLoading, pending, lastRequest>>
    /\ UNCHANGED <<kbVars, msVars, svc>>

----------------------------------------------------------------------------
(* The axios client and the settling of handleGenerate's request *)

Truthy(s) == s # Null /\ s[1] # ""

\* the response interceptor's rejection: an Error with this message
InterceptedMessage(err) ==
    IF err.kind = "response"
    THEN IF Truthy(err.detail) THEN err.detail[1]
         ELSE IF err.statusText # "" THEN err.statusText
         ELSE MSG_REQUEST_FAILED
    ELSE IF err.kind = "request" THEN MSG_NO_CONNECTION
    ELSE MSG_SETUP

\* what setOpinions receives
StoredOpinions(data) == data.opinions

\* handleGenerate without its finally
LoadingLeftAsItWas == isLoading

\* finally { setIsLoading(false) }
LoadingAfterSettled == FALSE

\* request r's await returns: setOpinions(data.opinions), then the finally
GenerateSucceeds(r, data) ==
    /\ r \in pending
    /\ pending' = pending \ {r}
    /\ opinions' = StoredOpinions(data)
    /\ isLoading' = LoadingAfterSettled
    /\ UNCHANGED <<studentInfo, error, lastRequest, copying>>
    /\ UNCHANGED <<kbVars, msVars, svc>>

\* err instanceof Error ? err.message : the default: the interceptor always
\* rejects with an Error
CaughtMessage(err) == InterceptedMessage(err)

\* a catch that also drops the opinions held
GenerateFailsEmptying(r, err) ==
    /\ r \in pending
    /\ pending' = pending \ {r}
    /\ opinions' = <<>>
    /\ error' = Some(InterceptedMessage(err))
    /\ isLoading' = FALSE
    /\ UNCHANGED <<studentInfo, lastRequest, copying>>
    /\ UNCHANGED <<kbVars, msVars, svc>>

\* request r's await throws: setError(err.message), then the finally.  A
\* request without an answer is ended by the client's timeout of 60 s, as a
\* failure without a response
GenerateFails(r, err) ==
    /\ r \in pending
    /\ pending' = pending \ {r}
    /\ error' = Some(CaughtMessage(err))
    /\ isLoading' = LoadingAfterSettled
    /\ UNCHANGED <<studentInfo, opinions, lastRequest, copying>>
    /\ UNCHANGED <<kbVars, msVars, svc>>

\* the buttons, disabled while isLoading; the refresh button exists only
\* while OpinionResults is rendered
ClickGenerate ==
    /\ ~isLoading
    /\ handleGenerate
    /\ UNCHANGED <<kbVars, msVars, svc>>

ClickRefresh ==
    /\ Len(opinions) > 0
    /\ ~isLoading
    /\ handleRefresh
    /\ UNCHANGED <<kbVars, msVars, svc>>

----------------------------------------------------------------------------
(* useKeyboardShortcuts and StudentInfoForm's keydown listeners *)

\* the characters of the keys used here, in the order of their code units
CodeOrder == <<"0", "1", "2", "3", "4", "5", "6", "7", "8", "9",
               "E", "F", "R", "a", "c", "e", "n", "p", "r", "s", "t">>

CodeRank(c) == CHOOSE i \in 1..Len(CodeOrder) : CodeOrder[i] = c

\* a <= b for strings: by code units, a prefix first
RECURSIVE StrLE(_, _)
StrLE(a, b) ==
    IF a = <<>> THEN TRUE
    ELSE IF b = <<>> THEN FALSE
    ELSE IF Head(a) # Head(b) THEN CodeRank(Head(a)) < CodeRank(Head(b))
    ELSE StrLE(Tail(a), Tail(b))

KEY_ENTER == <<"E", "n", "t", "e", "r">>
KEY_ESCAPE == <<"E", "s", "c", "a", "p", "e">>

KeyEvent(k, ctrl, meta, alt, shift) ==
    [key |-> k, ctrlKey |-> ctrl, metaKey |-> meta, altKey |-> alt, shiftKey |-> shift]

\* handleKeyDown with the digits' branch not looking at the modifiers
ShortcutCallsAnyModifier(e) ==
    IF (e.ctrlKey \/ e.metaKey) /\ e.key = KEY_ENTER
    THEN << <<"onGenerate">> >>
    ELSE IF (e.ctrlKey \/ e.metaKey) /\ e.key = <<"r">> /\ ~e.shiftKey
    THEN << <<"onRefresh">> >>
    ELSE IF e.key = KEY_ESCAPE
    THEN << <<"onReset">> >>
    ELSE IF StrLE(<<"1">>, e.key) /\ StrLE(e.key, <<"5">>)
    THEN << <<"onCopyOpinion", ParseInt(e.key).val - 1>> >>
    ELSE <<>>

\* useKeyboardShortcuts' handleKeyDown: the callbacks it calls, in order
ShortcutCalls(e) ==
    IF (e.ctrlKey \/ e.metaKey) /\ e.key = KEY_ENTER
    THEN << <<"onGenerate">> >>
    ELSE IF (e.ctrlKey \/ e.metaKey) /\ e.key = <<"r">> /\ ~e.shiftKey
    THEN << <<"onRefresh">> >>
    ELSE IF e.key = KEY_ESCAPE
    THEN << <<"onReset">> >>
    ELSE IF StrLE(<<"1">>, e.key) /\ StrLE(e.key, <<"5">>)
            /\ ~e.ctrlKey /\ ~e.metaKey /\ ~e.altKey
    THEN << <<"onCopyOpinion", ParseInt(e.key).val - 1>> >>
    ELSE <<>>

\* StudentInfoForm's handleKeyDown: where the focus is afterwards
FormKeyFocus(e, before) ==
    LET afterFirst == IF e.ctrlKey /\ e.key = <<"1">> THEN "name" ELSE before
    IN  IF e.ctrlKey /\ e.key = <<"2">> THEN "characteristics" ELSE afterFirst

\* the App handler behind a callback
Call(c) ==
    CASE c[1] = "onGenerate" -> handleGenerate
      [] c[1] = "onRefresh" -> handleRefresh
      [] c[1] = "onReset" -> handleReset
      [] c[1] = "onCopyOpinion" -> handleCopyOpinion(c[2])

\* one keydown event on window: both listeners run
KeyDown(e) ==
    /\ lastKey' = Some(e)
    /\ invoked' = ShortcutCalls(e)
    /\ focus' = FormKeyFocus(e, focus)
    /\ IF ShortcutCalls(e) = <<>>
       THEN UNCHANGED appVars
       ELSE Call(ShortcutCalls(e)[1])
    /\ UNCHANGED <<msVars, svc>>

----------------------------------------------------------------------------
(* ModelSelector *)

FALLBACK_MODELS ==
    <<[name |-> "gemini-2.5-flash", full_name |-> "models/gemini-2.5-flash",
       display_name |-> "Gemini 2.5 Flash"],
      [name |-> "gemini-2.5-pro", full_name |-> "models/gemini-2.5-pro",
       display_name |-> "Gemini 2.5 Pro"],
      [name |-> "gemini-2.5-flash-lite", full_name |-> "models/gemini-2.5-flash-lite",
       display_name |-> "Gemini 2.5 Flash Lite"]>>

\* the catch of fetchModels without its setModels
ModelsLeftAsTheyWere == models

\* what setModels receives on success and on failure
ModelsOnSuccess(data) == data.models
ModelsOnFailure == FALLBACK_MODELS

\* fetchModels' await returns
FetchModelsSucceeds(data) ==
    /\ fetching
    /\ fetching' = FALSE
    /\ models' = ModelsOnSuccess(data)
    /\ msError' = Null
    /\ msLoading' = FALSE
    /\ UNCHANGED <<appVars, kbVars, svc>>

\* fetchModels' await throws
FetchModelsFails(err) ==
    /\ fetching
    /\ fetching' = FALSE
    /\ msError' = Some(InterceptedMessage(err))
    /\ models' = ModelsOnFailure
    /\ msLoading' = FALSE
    /\ UNCHANGED <<appVars, kbVars, svc>>

\* the select is rendered once loading ended; its options are the models
handleModelChange(modelName) ==
    /\ ~msLoading
    /\ \E i \in 1..Len(models) : models[i].name = modelName
    /\ studentInfo' = [studentInfo EXCEPT !.modelName = modelName]
    /\ FormUnchanged

\* Esc and nothing else, for the specifications without the keyboard
PressEscape == KeyDown(KeyEvent(KEY_ESCAPE, FALSE, FALSE, FALSE, FALSE))

----------------------------------------------------------------------------
(* What the server may answer *)

\* a server that answers with four, five or six opinions
ServerDataOfAnyLength == {[opinions |-> [i \in 1..n |-> <<"A", i>>]] : n \in 4..6}

\* a 200 answer to POST /generate-opinions carries exactly five opinions
OpinionsAnswer(v) == [opinions |-> [i \in 1..5 |-> <<v, i>>]]
ServerData == {OpinionsAnswer(v) : v \in {"A", "B"}}

HttpError(detail, statusText) ==
    [kind |-> "response", detail |-> detail, statusText |-> statusText]
NoResponse == [kind |-> "request", detail |-> Null, statusText |-> ""]
SetupError == [kind |-> "setup", detail |-> Null, statusText |-> ""]

AllErrors ==
    {HttpError(Some("detail from the server"), "Bad Request"),
     HttpError(Some(""), "Internal Server Error"),
     HttpError(Null, ""),
     NoResponse, SetupError}

InitService ==
    svc = [state |-> "Idle", cache |-> Null, requested |-> Null, snapshot |-> Null,
           model |-> Null, attempts |-> 0, raw |-> Null, tier |-> 0,
           result |-> Null, failure |-> Null]

----------------------------------------------------------------------------
(* The application: form, buttons, shortcuts and the generate request *)

AppNameInputs == {<<>>, <<" ">>, <<"a">>}
AppCharacteristicsInputs == {<<>>, <<" ">>, <<"b">>}
AppKeys ==
    {KeyEvent(KEY_ENTER, TRUE, FALSE, FALSE, FALSE),
     KeyEvent(<<"r">>, FALSE, TRUE, FALSE, FALSE),
     KeyEvent(KEY_ESCAPE, FALSE, FALSE, FALSE, FALSE)}
AppErrors == {HttpError(Some("detail from the server"), "Bad Request"), NoResponse}

Init == InitApp /\ InitKeyboard /\ InitModelSelector /\ InitService

Next ==
    \/ \E typed \in AppNameInputs : NameChange(typed)
    \/ \E typed \in AppCharacteristicsInputs : CharacteristicsChange(typed)
    \/ \E type \in {"good", "weak"} : handleSubjectToggle(SUBJECTS[1], type)
    \/ handlePersonalityToggle(PERSONALITY_TRAITS[1])
    \/ ClickGenerate
    \/ ClickRefresh
    \/ \E e \in AppKeys : KeyDown(e)
    \/ \E r \in RequestIds, data \in ServerData : GenerateSucceeds(r, data)
    \/ \E r \in RequestIds, err \in AppErrors : GenerateFails(r, err)

Spec == Init /\ [][Next]_vars

\* request r settles, one way or the other
Settles(r) ==
    \/ \E data \in ServerData : GenerateSucceeds(r, data)
    \/ \E err \in AppErrors : GenerateFails(r, err)

\* the requests alone: one subject to have an input, the buttons, the
\* shortcuts, and the settling
NextRequests ==
    \/ handleSubjectToggle(SUBJECTS[1], "good")
    \/ \E typed \in {<<>>, <<"a">>} : NameChange(typed)
    \/ ClickGenerate
    \/ ClickRefresh
    \/ \E e \in AppKeys : KeyDown(e)
    \/ \E r \in RequestIds, data \in ServerData : GenerateSucceeds(r, data)
    \/ \E r \in RequestIds, err \in AppErrors : GenerateFails(r, err)

\* axios ends every request: with the answer, or after timeout: 60000 with a
\* failure, so a request that can settle does settle
FairSpec == Init /\ [][NextRequests]_vars /\ \A r \in RequestIds : WF_vars(Settles(r))

----------------------------------------------------------------------------
(* The request's outcomes: every kind of failure, and the success *)

NextOutcomes ==
    \/ handleSubjectToggle(SUBJECTS[1], "good")
    \/ ClickGenerate
    \/ ClickRefresh
    \/ \E e \in AppKeys : KeyDown(e)
    \/ \E r \in RequestIds, data \in ServerData : GenerateSucceeds(r, data)
    \/ \E r \in RequestIds, err \in AllErrors : GenerateFails(r, err)

SpecOutcomes == Init /\ [][NextOutcomes]_vars

----------------------------------------------------------------------------
(* Reset: every field of the form changed once, a request, and Esc *)

NextReset ==
    \/ NameChange(<<"a">>)
    \/ CharacteristicsChange(<<"b">>)
    \/ handleSubjectToggle(SUBJECTS[1], "good")
    \/ handleSubjectToggle(SUBJECTS[2], "weak")
    \/ handlePersonalityToggle(PERSONALITY_TRAITS[1])
    \/ LengthChange(<<"6", "0">>)
    \/ FetchModelsFails(NoResponse)
    \/ handleModelChange(FALLBACK_MODELS[2].name)
    \/ ClickGenerate
    \/ \E r \in RequestIds : GenerateSucceeds(r, OpinionsAnswer("A"))
    \/ PressEscape

SpecReset == Init /\ [][NextReset]_vars

----------------------------------------------------------------------------
(* The form's selections alone: subject and personality toggles, the
   per-section resets and Esc *)

FormSubjects == {SUBJECTS[i] : i \in 1..NumSubjects}
FormTraits == {PERSONALITY_TRAITS[i] : i \in 1..NumTraits}

NextForm ==
    \/ \E subject \in FormSubjects, type \in {"good", "weak"} :
          handleSubjectToggle(subject, type)
    \/ \E trait \in FormTraits : handlePersonalityToggle(trait)
    \/ handleResetGoodSubjects
    \/ handleResetWeakSubjects
    \/ handleResetPersonality
    \/ PressEscape

SpecForm == Init /\ [][NextForm]_vars

----------------------------------------------------------------------------
(* The form's text and number inputs, Esc, and the generate request *)

TextNameInputs ==
    {<<>>, <<" ">>, <<" ", "a", " ">>}
        \cup {Rep("a", n) : n \in NAME_MAX..(NAME_MAX + MaxOverflow)}

TextCharacteristicsInputs ==
    {<<>>, <<" ">>}
        \cup {Rep("b", n) : n \in (CHAR_MAX - 1)..(CHAR_MAX + MaxOverflow)}

\* typed into the number input: empty, not a number, zero, below 50, in range,
\* above 100, negative, hexadecimal, a fraction, an exponent, leading space
TextLengthInputs ==
    {<<>>, <<"a", "b", "c">>, <<"0">>, <<"4", "9">>, <<"5", "0">>, <<"6", "0">>,
     <<"1", "0", "0">>, <<"1", "0", "1">>, <<"9", "9", "9", "9">>, <<"-", "5">>,
     <<"0", "x", "4", "0">>, <<"7", ".", "9">>, <<"1", "e", "3">>, <<" ", "8", "0">>}

NextText ==
    \/ \E typed \in TextNameInputs : NameChange(typed)
    \/ \E typed \in TextCharacteristicsInputs : CharacteristicsChange(typed)
    \/ \E typed \in TextLengthInputs : LengthChange(typed)
    \/ PressEscape
    \/ ClickGenerate
    \/ \E r \in RequestIds, data \in ServerData : GenerateSucceeds(r, data)
    \/ \E r \in RequestIds : GenerateFails(r, NoResponse)

SpecText == Init /\ [][NextText]_vars

----------------------------------------------------------------------------
(* The keyboard: every key with every combination of modifiers *)

AllKeys == {KEY_ENTER, KEY_ESCAPE, <<"r">>, <<"R">>, <<"0">>, <<"1">>, <<"2">>,
            <<"5">>, <<"6">>}

AllKeyEvents ==
    {KeyEvent(k, c, m, a, sh) : k \in AllKeys, c \in BOOLEAN, m \in BOOLEAN,
                                a \in BOOLEAN, sh \in BOOLEAN}

NextKeys ==
    \/ \E e \in AllKeyEvents : KeyDown(e)
    \/ handleSubjectToggle(SUBJECTS[1], "good")
    \/ \E r \in RequestIds : GenerateSucceeds(r, OpinionsAnswer("A"))
    \/ ClipboardResolves
    \/ ClipboardRejects

SpecKeys == Init /\ [][NextKeys]_vars

----------------------------------------------------------------------------
(* ModelSelector: the model list's fetch and the selection *)

ServerModelNames ==
    {"gemini-2.5-flash", "gemini-2.5-pro", "gemini-2.5-flash-lite", "gemini-2.0-flash"}

ModelDescriptor(n) == [name |-> n, full_name |-> "models/" \o n, display_name |-> n]

RECURSIVE ListsOver(_, _)
ListsOver(S, n) ==
    IF n = 0 THEN {<<>>}
    ELSE LET shorter == ListsOver(S, n - 1)
         IN  shorter \cup {Append(l, x) : l \in {m \in shorter : Len(m) = n - 1}, x \in S}

ServerModelLists ==
    {[models |-> [i \in 1..Len(l) |-> ModelDescriptor(l[i])]] :
        l \in ListsOver(ServerModelNames, MaxModels)}

NextModels ==
    \/ \E data \in ServerModelLists : FetchModelsSucceeds(data)
    \/ \E err \in AllErrors : FetchModelsFails(err)
    \/ \E m \in ServerModelNames : handleModelChange(m)
    \/ PressEscape

SpecModels == Init /\ [][NextModels]_vars

----------------------------------------------------------------------------
(* The back end, from the design document: ModelCatalog, ModelResolver,
   GenerationClient, ResponseParser and OpinionService's state machine.
   svc.cache is the process-wide snapshot; the other fields are the one
   request being served. *)

PREFERRED_MODEL == "gemini-2.5-flash"
SECONDARY_MODEL == "gemini-2.5-pro"

\* the static fallback snapshot of three well-known models
StaticCatalog == [i \in 1..3 |-> ModelDescriptor(FALLBACK_MODELS[i].name)]

InCatalog(snapshot, n) == \E i \in 1..Len(snapshot) : snapshot[i].name = n

ByName(snapshot, n) ==
    snapshot[CHOOSE i \in 1..Len(snapshot) :
                /\ snapshot[i].name = n
                /\ \A j \in 1..(i - 1) : snapshot[j].name # n]

\* the fallback chain with its two names exchanged
FallbackOrderExchanged == <<SECONDARY_MODEL, PREFERRED_MODEL>>

\* the fallback chain after the requested name, in order
FallbackOrder == <<PREFERRED_MODEL, SECONDARY_MODEL>>

\* ModelResolver.resolve: null stands for ModelUnavailable
Resolve(requestedName, snapshot) ==
    LET tries == <<requestedName>> \o FallbackOrder
        hits == SelectSeq(tries, LAMBDA n : InCatalog(snapshot, n))
    IN  IF snapshot = <<>> THEN Null
        ELSE IF hits # <<>> THEN Some(ByName(snapshot, hits[1]))
        ELSE Some(snapshot[1])

SvcUnchanged == UNCHANGED <<appVars, kbVars, msVars>>

\* ModelCatalog.refresh succeeds: the snapshot is replaced wholesale.  The
\* refresh is caller-triggered: at start, on demand between requests, and by
\* current() while the model is being resolved
CatalogRefreshSucceeds(list) ==
    /\ svc.state \in {"Idle", "ResolvingModel"}
    /\ svc' = [svc EXCEPT !.cache = Some([models |-> list, degraded |-> FALSE])]
    /\ SvcUnchanged

\* ModelCatalog.refresh fails: a previous snapshot is retained, else the
\* static fallback is used and marked
CatalogRefreshFails ==
    /\ svc.state \in {"Idle", "ResolvingModel"}
    /\ svc' = [svc EXCEPT !.cache =
                 IF svc.cache = Null
                 THEN Some([models |-> StaticCatalog, degraded |-> TRUE])
                 ELSE svc.cache]
    /\ SvcUnchanged

\* generateOpinions is called with a requested model name
AcceptRequest(requestedName) ==
    /\ svc.state = "Idle"
    /\ svc' = [svc EXCEPT !.state = "ResolvingModel", !.requested = Some(requestedName)]
    /\ SvcUnchanged

\* resolve the effective model against ModelCatalog.current(), which needs
\* a snapshot: without one it waits for the refresh
ResolveModel ==
    /\ svc.state = "ResolvingModel"
    /\ svc.cache # Null
    /\ LET snapshot == svc.cache[1].models
           found == Resolve(svc.requested[1], snapshot)
       IN  svc' = [svc EXCEPT
                     !.snapshot = Some(snapshot),
                     !.model = found,
                     !.state = IF found = Null THEN "Failed" ELSE "Prompting",
                     !.failure = IF found = Null THEN Some("ModelUnavailable") ELSE Null]
    /\ SvcUnchanged

\* the answer is returned and the request's state discarded
FinishRequest ==
    /\ svc.state \in {"Succeeded", "Failed"}
    /\ svc' = [svc EXCEPT !.state = "Idle", !.requested = Null, !.snapshot = Null,
                          !.model = Null, !.attempts = 0, !.raw = Null, !.tier = 0,
                          !.result = Null, !.failure = Null]
    /\ SvcUnchanged

\* PromptBuilder.build never fails
BuildPrompt ==
    /\ svc.state = "Prompting"
    /\ svc' = [svc EXCEPT !.state = "Generating"]
    /\ SvcUnchanged

RequestedNames == ServerModelNames \cup {"unknown-model"}

CatalogLists ==
    {[i \in 1..Len(l) |-> ModelDescriptor(l[i])] : l \in ListsOver(ServerModelNames, MaxModels)}

NextResolver ==
    \/ \E list \in CatalogLists : CatalogRefreshSucceeds(list)
    \/ CatalogRefreshFails
    \/ \E n \in RequestedNames : AcceptRequest(n)
    \/ ResolveModel
    \/ FinishRequest

SpecResolver == Init /\ [][NextResolver]_vars

----------------------------------------------------------------------------
(* ResponseParser: the four strategies, on the characters of the raw text *)

QUOTE == "\""
QuoteMarks == {QUOTE, "'"}
OPINIONS_KEY == <<"o", "p", "i", "n", "i", "o", "n", "s">>
PARSED_COUNT == 5

\* the character at i, or the empty string past the end
At(s, i) == IF i \in 1..Len(s) THEN s[i] ELSE ""

\* the first index from i on whose character is in chars (member) or is not
\* (~member), or Len(s) + 1
FirstFrom(s, i, chars, member) ==
    IF \E j \in i..Len(s) : (s[j] \in chars) = member
    THEN CHOOSE j \in i..Len(s) :
            /\ (s[j] \in chars) = member
            /\ \A k \in i..(j - 1) : (s[k] \in chars) # member
    ELSE Len(s) + 1

SkipSpace(s, i) == FirstFrom(s, i, WhiteSpace, FALSE)

TrimAll(list) == [i \in 1..Len(list) |-> Trim(list[i])]

NoParse == [ok |-> FALSE, next |-> 0, val |-> <<>>]

\* a string literal starting at i
JsonString(s, i) ==
    LET close == FirstFrom(s, i + 1, {QUOTE}, TRUE)
    IN  IF At(s, i) = QUOTE /\ close <= Len(s)
        THEN [ok |-> TRUE, next |-> close + 1, val |-> SubSeq(s, i + 1, close - 1)]
        ELSE NoParse

\* the rest of an array of strings, from its item at i
RECURSIVE JsonItems(_, _, _)
JsonItems(s, i, acc) ==
    LET str == JsonString(s, i)
        k == SkipSpace(s, str.next)
    IN  IF ~str.ok THEN NoParse
        ELSE IF At(s, k) = "," THEN JsonItems(s, SkipSpace(s, k + 1), Append(acc, str.val))
        ELSE IF At(s, k) = "]" THEN [ok |-> TRUE, next |-> k + 1, val |-> Append(acc, str.val)]
        ELSE NoParse

\* an array of strings starting at i
JsonArray(s, i) ==
    LET k == SkipSpace(s, i + 1)
    IN  IF At(s, i) # "[" THEN NoParse
        ELSE IF At(s, k) = "]" THEN [ok |-> TRUE, next |-> k + 1, val |-> <<>>]
        ELSE JsonItems(s, k, <<>>)

\* the rest of an object whose values are arrays of strings, from its key at i;
\* val is the sequence of <<key, array>>
RECURSIVE JsonPairs(_, _, _)
JsonPairs(s, i, acc) ==
    LET key == JsonString(s, i)
        colon == SkipSpace(s, key.next)
        arr == JsonArray(s, SkipSpace(s, colon + 1))
        k == SkipSpace(s, arr.next)
    IN  IF ~key.ok \/ At(s, colon) # ":" \/ ~arr.ok THEN NoParse
        ELSE IF At(s, k) = ","
        THEN JsonPairs(s, SkipSpace(s, k + 1), Append(acc, <<key.val, arr.val>>))
        ELSE IF At(s, k) = "}"
        THEN [ok |-> TRUE, next |-> k + 1, val |-> Append(acc, <<key.val, arr.val>>)]
        ELSE NoParse

JsonObject(s, i) ==
    LET k == SkipSpace(s, i + 1)
    IN  IF At(s, i) # "{" THEN NoParse
        ELSE IF At(s, k) = "}" THEN [ok |-> TRUE, next |-> k + 1, val |-> <<>>]
        ELSE JsonPairs(s, k, <<>>)

\* tier 1: the whole text is a document, a bare array of strings or an object
\* exposing an "opinions" array; the entries, or none
StructuredParse(raw) ==
    LET start == SkipSpace(raw, 1)
        arr == JsonArray(raw, start)
        obj == JsonObject(raw, start)
        hits == SelectSeq(obj.val, LAMBDA pair : pair[1] = OPINIONS_KEY)
    IN  IF arr.ok /\ SkipSpace(raw, arr.next) > Len(raw) THEN TrimAll(arr.val)
        ELSE IF obj.ok /\ SkipSpace(raw, obj.next) > Len(raw) /\ hits # <<>>
        THEN TrimAll(hits[Len(hits)][2])
        ELSE <<>>

RECURSIVE SplitLines(_)
SplitLines(s) ==
    LET k == FirstFrom(s, 1, {"\n"}, TRUE)
    IN  IF k > Len(s) THEN <<s>>
        ELSE <<SubSeq(s, 1, k - 1)>> \o SplitLines(SubSeq(s, k + 1, Len(s)))

\* a line "<integer><. or : or )> text": <<label, text>> in a sequence, or none
NumberedLine(line) ==
    LET t == TrimStart(line)
        sep == FirstFrom(t, 1, {HexDigits[d] : d \in 1..10}, FALSE)
        body == Trim(SubSeq(t, sep + 1, Len(t)))
    IN  IF sep > 1 /\ At(t, sep) \in {".", ":", ")"} /\ body # <<>>
        THEN << <<DigitRun(t, 10, 0), body>> >>
        ELSE <<>>

RECURSIVE NumberedLines(_)
NumberedLines(lines) ==
    IF lines = <<>> THEN <<>>
    ELSE NumberedLine(Head(lines)) \o NumberedLines(Tail(lines))

\* stable insertion by label
RECURSIVE InLabelOrder(_)
InLabelOrder(pairs) ==
    IF pairs = <<>> THEN <<>>
    ELSE LET last == pairs[Len(pairs)]
             front == InLabelOrder(SubSeq(pairs, 1, Len(pairs) - 1))
             before == SelectSeq(front, LAMBDA q : q[1] <= last[1])
             after == SelectSeq(front, LAMBDA q : q[1] > last[1])
         IN  before \o <<last>> \o after

\* tier 2: the bodies of the numbered lines, in label order
NumberedList(raw) ==
    LET pairs == InLabelOrder(NumberedLines(SplitLines(raw)))
    IN  [i \in 1..Len(pairs) |-> pairs[i][2]]

\* tier 3: the substrings between matching quotation marks, up to five
RECURSIVE QuotedFrom(_, _, _)
QuotedFrom(s, i, acc) ==
    LET open == FirstFrom(s, i, QuoteMarks, TRUE)
        close == FirstFrom(s, open + 1, {At(s, open)}, TRUE)
    IN  IF Len(acc) = PARSED_COUNT \/ open > Len(s) THEN acc
        ELSE IF close > Len(s) THEN QuotedFrom(s, open + 1, acc)
        ELSE QuotedFrom(s, close + 1, Append(acc, Trim(SubSeq(s, open + 1, close - 1))))

QuotedStrings(raw) == QuotedFrom(raw, 1, <<>>)

\* tier 4: the non-blank lines, trimmed, the first five
LineSplit(raw) ==
    Slice(SelectSeq(TrimAll(SplitLines(raw)), LAMBDA l : l # <<>>), PARSED_COUNT)

\* a strategy wins when it yields exactly five non-empty strings
Accepted(candidate) ==
    /\ Len(candidate) = PARSED_COUNT
    /\ \A i \in 1..Len(candidate) : candidate[i] # <<>>

\* the chain with the quoted strings tried before the numbered list
ParserChainExchanged == <<"structured", "quoted", "numbered", "lines">>

ParserChain == <<"structured", "numbered", "quoted", "lines">>

Strategy(name, raw) ==
    CASE name = "structured" -> StructuredParse(raw)
      [] name = "numbered" -> NumberedList(raw)
      [] name = "quoted" -> QuotedStrings(raw)
      [] name = "lines" -> LineSplit(raw)

----------------------------------------------------------------------------
(* GenerationClient and the parsing steps of OpinionService *)

\* the provider answers with a text
ProviderAnswers(raw) ==
    /\ svc.state = "Generating"
    /\ svc' = [svc EXCEPT !.state = "Parsing", !.raw = Some(raw), !.tier = 1]
    /\ SvcUnchanged

\* the provider call fails: one more attempt after a transient failure
ProviderFails(kind) ==
    /\ svc.state = "Generating"
    /\ svc' = IF kind = "transient" /\ svc.attempts = 0
              THEN [svc EXCEPT !.attempts = 1]
              ELSE [svc EXCEPT !.state = "Failed",
                               !.failure = Some("ProviderError " \o kind)]
    /\ SvcUnchanged

\* after the strategy at the chain's position tier
AfterStrategy(candidate) ==
    IF Accepted(candidate)
    THEN [svc EXCEPT !.state = "Succeeded", !.result = Some(candidate)]
    ELSE IF svc.tier < Len(ParserChain)
    THEN [svc EXCEPT !.tier = svc.tier + 1]
    ELSE [svc EXCEPT !.state = "Failed", !.failure = Some("ParseError")]

TryStrategy(name) ==
    /\ svc.state = "Parsing"
    /\ ParserChain[svc.tier] = name
    /\ svc' = AfterStrategy(Strategy(name, svc.raw[1]))
    /\ SvcUnchanged

TryStructured == TryStrategy("structured")
TryNumbered == TryStrategy("numbered")
TryQuoted == TryStrategy("quoted")
TryLines == TryStrategy("lines")

----------------------------------------------------------------------------
(* The provider's answers *)

Letters == <<"A", "B", "C", "D", "E", "F", "G", "H">>
DigitChars == <<"1", "2", "3", "4", "5", "6", "7", "8", "9">>
Entry(i) == <<Letters[i]>>
Quoted(text) == <<QUOTE>> \o text \o <<QUOTE>>

RECURSIVE Join(_, _)
Join(parts, sep) ==
    IF parts = <<>> THEN <<>>
    ELSE IF Len(parts) = 1 THEN parts[1]
    ELSE parts[1] \o sep \o Join(Tail(parts), sep)

QuotedEntries(k) == [i \in 1..k |-> Quoted(Entry(i))]

ArrayText(items) == <<"[">> \o Join(items, <<",", " ">>) \o <<"]">>
ObjectText(key, items) ==
    <<"{">> \o Quoted(key) \o <<":", " ">> \o ArrayText(items) \o <<"}">>

\* ["A", "B", ...]
AnswerArray(k) == ArrayText(QuotedEntries(k))
\* {"opinions": ["A", ...]}
AnswerObject(k) == ObjectText(OPINIONS_KEY, QuotedEntries(k))
\* {"items": ["A", ...]}
AnswerOtherObject(k) == ObjectText(<<"i", "t", "e", "m", "s">>, QuotedEntries(k))
\* [" A ", "B", ...]: the first entry padded
AnswerPaddedArray(k) ==
    ArrayText([i \in 1..k |-> IF i = 1 THEN Quoted(<<" ">> \o Entry(i) \o <<" ">>)
                              ELSE Quoted(Entry(i))])
\* ["", "B", ...]: the first entry empty
AnswerArrayWithEmpty(k) ==
    ArrayText([i \in 1..k |-> IF i = 1 THEN Quoted(<<>>) ELSE Quoted(Entry(i))])
\* a sentence, then the array on the next line
AnswerPrefacedArray(k) == <<"O", "K", ":", "\n">> \o AnswerArray(k)
\* 1. A / 2. B / ...
AnswerNumbered(k) ==
    Join([i \in 1..k |-> <<DigitChars[i], ".", " ">> \o Entry(i)], <<"\n">>)
\* k) ... / 1) A: the labels descending
AnswerNumberedDescending(k) ==
    Join([i \in 1..k |-> <<DigitChars[k + 1 - i], ")">> \o Entry(k + 1 - i)], <<"\n">>)
\* 1: "A" / 2: "B" / ...
AnswerNumberedQuoted(k) ==
    Join([i \in 1..k |-> <<DigitChars[i], ":", " ">> \o Quoted(Entry(i))], <<"\n">>)
\* 'A' 'B' ... on one line
AnswerQuotedRow(k) ==
    Join([i \in 1..k |-> <<"'">> \o Entry(i) \o <<"'">>], <<" ">>)
\* A / (blank) / B / C / (blank) / ...: a blank line after every odd entry
AnswerLines(k) ==
    Join([i \in 1..k |-> IF i % 2 = 1 /\ i < k THEN Entry(i) \o <<"\n", " ">>
                         ELSE Entry(i)], <<"\n">>)

RawAnswers ==
    UNION {{AnswerArray(k), AnswerObject(k), AnswerOtherObject(k), AnswerPaddedArray(k),
            AnswerArrayWithEmpty(k), AnswerPrefacedArray(k), AnswerNumbered(k),
            AnswerNumberedDescending(k), AnswerNumberedQuoted(k), AnswerQuotedRow(k),
            AnswerLines(k)} : k \in 0..MaxItems}

NextParser ==
    \/ CatalogRefreshFails
    \/ AcceptRequest(PREFERRED_MODEL)
    \/ ResolveModel
    \/ BuildPrompt
    \/ \E raw \in RawAnswers : ProviderAnswers(raw)
    \/ \E kind \in {"transient", "policy", "quota"} : ProviderFails(kind)
    \/ TryStructured
    \/ TryNumbered
    \/ TryQuoted
    \/ TryLines
    \/ FinishRequest

SpecParser == Init /\ [][NextParser]_vars

----------------------------------------------------------------------------
(* Properties of the application *)

\* the request body has a field: a name or characteristics that are not null
\* (they are sent trimmed, and null when empty) or a selection
BodyHasAField(body) ==
    \/ body.name # Null /\ body.name[1] # <<>> /\ body.name[1] = Trim(body.name[1])
    \/ body.good_subjects # <<>>
    \/ body.weak_subjects # <<>>
    \/ body.personality # <<>>
    \/ /\ body.characteristics # Null
       /\ body.characteristics[1] # <<>>
       /\ body.characteristics[1] = Trim(body.characteristics[1])

\* the five fields are empty, the two texts after trimming
AllFiveEmpty(info) ==
    /\ \A i \in 1..Len(info.name) : info.name[i] \in WhiteSpace
    /\ info.goodSubjects = <<>>
    /\ info.weakSubjects = <<>>
    /\ info.personality = <<>>
    /\ \A i \in 1..Len(info.characteristics) : info.characteristics[i] \in WhiteSpace

\* this step is a run of handleGenerate: by its button or by Ctrl/Cmd+Enter
GenerateRuns ==
    \/ ClickGenerate
    \/ \E e \in AppKeys : ShortcutCalls(e) = << <<"onGenerate">> >> /\ KeyDown(e)

\* C1: a POST /generate-opinions is sent only when one of name (trimmed),
\* good_subjects, weak_subjects, personality, characteristics (trimmed) is
\* not empty, and the body sent has that field; a run of handleGenerate with
\* all five empty sends nothing, sets error to the "at least one field"
\* message and leaves opinions, studentInfo and isLoading as they were.
C1_RequestNeedsAField ==
    [][ /\ (pending' # pending /\ pending \subseteq pending')
            => /\ ~AllFiveEmpty(studentInfo)
               /\ lastRequest' # Null
               /\ BodyHasAField(lastRequest'[1])
        /\ (GenerateRuns /\ AllFiveEmpty(studentInfo))
            => /\ pending' = pending
               /\ lastRequest' = lastRequest
               /\ error' = Some(MSG_MIN_ONE_FIELD)
               /\ opinions' = opinions
               /\ studentInfo' = studentInfo
               /\ isLoading' = isLoading ]_vars

\* the validation message is shown over a form holding only blanks, and no
\* request was ever sent
C1_Witness ==
    /\ error = Some(MSG_MIN_ONE_FIELD)
    /\ studentInfo.name = <<" ">>
    /\ studentInfo.characteristics = <<" ">>
    /\ AllFiveEmpty(studentInfo)
    /\ lastRequest = Null
    /\ pending = {}

\* C2: goodSubjects and weakSubjects are disjoint in every reachable state:
\* after any toggles of subjects as good or weak, resets of a section and Esc,
\* no subject is in both lists.
C2_SubjectsDisjoint ==
    \A i \in 1..Len(studentInfo.goodSubjects), j \in 1..Len(studentInfo.weakSubjects) :
        studentInfo.goodSubjects[i] # studentInfo.weakSubjects[j]

\* both lists are in use, the good one with two subjects
C2_Witness ==
    /\ studentInfo.goodSubjects = <<SUBJECTS[2], SUBJECTS[1]>>
    /\ studentInfo.weakSubjects = <<SUBJECTS[3]>>

\* C3: targetLength is an integer from 50 to 100 in every reachable state,
\* whatever is typed into the length field, and so is the target_length of
\* every request sent.
C3_TargetLengthInRange ==
    /\ studentInfo.targetLength \in 50..100
    /\ lastRequest # Null => lastRequest[1].target_length \in 50..100

\* a length typed above 100 is held as 100 after one typed below 50 was sent
\* as 50
C3_Witness ==
    /\ studentInfo.targetLength = 100
    /\ lastRequest # Null
    /\ lastRequest[1].target_length = 50

\* C4: name has at most 5 characters and characteristics at most 40 in every
\* reachable state, for any changes of the text inputs and resets, and so
\* have the name and characteristics of every request sent.
C4_TextLengthsBounded ==
    /\ Len(studentInfo.name) <= 5
    /\ Len(studentInfo.characteristics) <= 40
    /\ lastRequest # Null =>
          /\ lastRequest[1].name # Null => Len(lastRequest[1].name[1]) <= 5
          /\ lastRequest[1].characteristics # Null =>
                Len(lastRequest[1].characteristics[1]) <= 40

\* both texts are held and were sent at their full lengths
C4_Witness ==
    /\ Len(studentInfo.name) = 5
    /\ Len(studentInfo.characteristics) = 40
    /\ lastRequest # Null
    /\ lastRequest[1].name # Null
    /\ Len(lastRequest[1].name[1]) = 5
    /\ lastRequest[1].characteristics # Null
    /\ Len(lastRequest[1].characteristics[1]) = 40

\* C5: the opinions held by the application are, in every reachable state,
\* none or exactly five strings: a generate request that succeeds stores
\* exactly five opinions.
C5_NoneOrFiveOpinions ==
    \/ opinions = <<>>
    \/ Len(opinions) = 5 /\ DOMAIN opinions = 1..5

\* a request succeeded and its five opinions are held
C5_Witness ==
    /\ Len(opinions) = 5
    /\ lastRequest # Null
    /\ pending = {}
    /\ ~isLoading

\* C6: a generate request never hangs: every request that was started is
\* settled in the end, as a success or as an error, and the step that
\* settles it leaves isLoading false, on the success and on the failure path.
C6_RequestSettles ==
    /\ \A r \in RequestIds : (r \in pending) ~> (r \notin pending)
    /\ [][ \A r \in RequestIds : (r \in pending /\ r \notin pending') => ~isLoading' ]_vars

\* a request was ended by the timeout: nothing is pending, the loading is
\* over and the "no connection" message is shown
C6_Witness ==
    /\ lastRequest # Null
    /\ pending = {}
    /\ ~isLoading
    /\ error = Some(MSG_NO_CONNECTION)

\* the names of a model list
ModelNames(list) == [i \in 1..Len(list) |-> list[i].name]

\* C7: when the fetch of the available models fails, no list having been
\* obtained, the list becomes the built-in three models gemini-2.5-flash,
\* gemini-2.5-pro, gemini-2.5-flash-lite and the error is not null; when it
\* succeeds the list is exactly the server's and the error is null; in both
\* cases loading ends.
C7_ModelListAfterFetch ==
    /\ [](fetching => msLoading /\ models = <<>> /\ msError = Null)
    /\ [](~fetching =>
            /\ ~msLoading
            /\ msError # Null =>
                  ModelNames(models) =
                      <<"gemini-2.5-flash", "gemini-2.5-pro", "gemini-2.5-flash-lite">>
            /\ msError = Null => [models |-> models] \in ServerModelLists)
    /\ [][ /\ \A data \in ServerModelLists :
                FetchModelsSucceeds(data) =>
                    models' = data.models /\ msError' = Null /\ ~msLoading'
           /\ \A err \in AllErrors :
                FetchModelsFails(err) =>
                    Len(models') = 3 /\ msError' # Null /\ ~msLoading' ]_vars

\* the fetch failed: the three built-in models are offered under a notice
C7_Witness ==
    /\ ~fetching
    /\ ~msLoading
    /\ msError = Some(MSG_NO_CONNECTION)
    /\ Len(models) = 3
    /\ models[3].name = "gemini-2.5-flash-lite"

\* the documented table, read on the event's key: modifiers matter where the
\* table names them, and Ctrl/Cmd+R is the key "r" without Shift
DocumentedCalls(e) ==
    CASE (e.ctrlKey \/ e.metaKey) /\ e.key = KEY_ENTER -> << <<"onGenerate">> >>
      [] (e.ctrlKey \/ e.metaKey) /\ e.key = <<"r">> /\ ~e.shiftKey -> << <<"onRefresh">> >>
      [] e.key = KEY_ESCAPE -> << <<"onReset">> >>
      [] ~e.ctrlKey /\ ~e.metaKey /\ ~e.altKey /\ e.key = <<"1">> -> << <<"onCopyOpinion", 0>> >>
      [] ~e.ctrlKey /\ ~e.metaKey /\ ~e.altKey /\ e.key = <<"2">> -> << <<"onCopyOpinion", 1>> >>
      [] ~e.ctrlKey /\ ~e.metaKey /\ ~e.altKey /\ e.key = <<"3">> -> << <<"onCopyOpinion", 2>> >>
      [] ~e.ctrlKey /\ ~e.metaKey /\ ~e.altKey /\ e.key = <<"4">> -> << <<"onCopyOpinion", 3>> >>
      [] ~e.ctrlKey /\ ~e.metaKey /\ ~e.altKey /\ e.key = <<"5">> -> << <<"onCopyOpinion", 4>> >>
      [] OTHER -> <<>>

\* the table with Ctrl/Cmd+R read as the key "r" whatever Shift is
DocumentedCallsAnyShift(e) ==
    IF (e.ctrlKey \/ e.metaKey) /\ e.key = <<"r">>
    THEN << <<"onRefresh">> >>
    ELSE DocumentedCalls(e)

\* the keydown of e called these, at most one, and Ctrl+1 and Ctrl+2 moved
\* the focus and called nothing
KeyDownDid(e, calls) ==
    /\ Len(invoked) <= 1
    /\ invoked = calls
    /\ (e.ctrlKey /\ e.key = <<"1">>) => focus = "name" /\ invoked = <<>>
    /\ (e.ctrlKey /\ e.key = <<"2">>) => focus = "characteristics" /\ invoked = <<>>

----------------------------------------------------------------------------
(* Properties of the back end *)

\* the name is in the catalog
Listed(catalog, n) == n \in {catalog[i].name : i \in 1..Len(catalog)}

\* C9: the model is resolved in the fixed order, the first match winning:
\* the requested model if the catalog has it, else gemini-2.5-flash if
\* present, else gemini-2.5-pro if present, else the catalog's first entry;
\* with a catalog that is not empty it never fails, whatever name is
\* requested, and with an empty catalog it always fails with
\* ModelUnavailable.
C9_ResolutionOrder ==
    svc.snapshot # Null =>
        LET catalog == svc.snapshot[1]
            requested == svc.requested[1]
        IN  IF catalog = <<>>
            THEN /\ svc.model = Null
                 /\ svc.state = "Failed"
                 /\ svc.failure = Some("ModelUnavailable")
            ELSE /\ svc.model # Null
                 /\ svc.failure # Some("ModelUnavailable")
                 /\ \E i \in 1..Len(catalog) : catalog[i] = svc.model[1]
                 /\ svc.model[1].name =
                       IF Listed(catalog, requested) THEN requested
                       ELSE IF Listed(catalog, "gemini-2.5-flash") THEN "gemini-2.5-flash"
                       ELSE IF Listed(catalog, "gemini-2.5-pro") THEN "gemini-2.5-pro"
                       ELSE catalog[1].name

\* an unknown name was requested of a catalog holding gemini-2.5-pro before
\* gemini-2.5-flash, and gemini-2.5-flash was chosen
C9_Witness ==
    /\ svc.requested = Some("unknown-model")
    /\ svc.snapshot # Null
    /\ ModelNames(svc.snapshot[1]) = <<"gemini-2.5-flash-lite", "gemini-2.5-pro", "gemini-2.5-flash">>
    /\ svc.model # Null
    /\ svc.model[1].name = "gemini-2.5-flash"

\* the four tiers in their order
TierOutput(t, raw) ==
    CASE t = 1 -> StructuredParse(raw)
      [] t = 2 -> NumberedList(raw)
      [] t = 3 -> QuotedStrings(raw)
      [] t = 4 -> LineSplit(raw)

\* exactly five strings, none empty, each trimmed
FiveTrimmed(list) ==
    /\ Len(list) = 5
    /\ \A i \in 1..Len(list) :
          /\ list[i] # <<>>
          /\ list[i][1] \notin WhiteSpace
          /\ list[i][Len(list[i])] \notin WhiteSpace

\* C10: the parser tries structured parse, numbered list, quoted strings and
\* line split in this order; its result is the output of the first tier
\* that yields exactly five non-empty trimmed strings, unaltered by later
\* tiers; when no tier yields exactly five it fails with ParseError, and it
\* never returns a list of another length.
C10_FirstTierWins ==
    /\ svc.result # Null =>
          /\ svc.state = "Succeeded"
          /\ FiveTrimmed(svc.result[1])
          /\ \E t \in 1..4 :
                /\ svc.result[1] = TierOutput(t, svc.raw[1])
                /\ \A u \in 1..(t - 1) : ~FiveTrimmed(TierOutput(u, svc.raw[1]))
    /\ svc.failure = Some("ParseError") =>
          /\ svc.result = Null
          /\ \A t \in 1..4 : ~FiveTrimmed(TierOutput(t, svc.raw[1]))
    /\ (svc.raw # Null /\ svc.state \in {"Succeeded", "Failed"}) =>
          (svc.result # Null \/ svc.failure = Some("ParseError"))

\* the numbered list won over quoted strings that would have given five
\* other strings
C10_Witness ==
    /\ svc.state = "Succeeded"
    /\ svc.raw # Null
    /\ svc.result = Some(NumberedList(svc.raw[1]))
    /\ ~FiveTrimmed(StructuredParse(svc.raw[1]))
    /\ FiveTrimmed(QuotedStrings(svc.raw[1]))
    /\ QuotedStrings(svc.raw[1]) # NumberedList(svc.raw[1])

----------------------------------------------------------------------------
(* Properties of the request's outcomes, of refresh and of reset *)

RefreshRuns ==
    \/ ClickRefresh
    \/ \E e \in AppKeys : ShortcutCalls(e) = << <<"onRefresh">> >> /\ KeyDown(e)

\* what generate does with the current studentInfo: the validation message,
\* or one more request carrying the form
GenerateEffect ==
    IF AllFiveEmpty(studentInfo)
    THEN /\ error' = Some(MSG_MIN_ONE_FIELD)
         /\ UNCHANGED <<studentInfo, opinions, isLoading, pending, lastRequest, copying>>
    ELSE /\ \E r \in RequestIds \ pending : pending' = pending \cup {r}
         /\ lastRequest' # Null
         /\ lastRequest'[1].name = OrNull(Trim(studentInfo.name))
         /\ lastRequest'[1].good_subjects = studentInfo.goodSubjects
         /\ lastRequest'[1].weak_subjects = studentInfo.weakSubjects
         /\ lastRequest'[1].personality = studentInfo.personality
         /\ lastRequest'[1].characteristics = OrNull(Trim(studentInfo.characteristics))
         /\ lastRequest'[1].target_length = studentInfo.targetLength
         /\ lastRequest'[1].model_name = studentInfo.modelName
         /\ isLoading'
         /\ error' = Null
         /\ UNCHANGED <<studentInfo, opinions, copying>>

\* C12: refresh, by Ctrl/Cmd+R or by its button, regenerates only when there
\* are opinions: with no opinions it sends no request and changes nothing
\* of the application's state; with opinions it does exactly what generate
\* does with the current studentInfo.
C12_RefreshNeedsOpinions ==
    [][ RefreshRuns =>
            IF opinions = <<>>
            THEN UNCHANGED <<studentInfo, opinions, isLoading, error, pending,
                             lastRequest, copying>>
            ELSE GenerateEffect ]_vars

\* Cmd+R was pressed over a form with a subject chosen and no opinions: no
\* request was ever sent
C12_Witness ==
    /\ lastKey = Some(KeyEvent(<<"r">>, FALSE, TRUE, FALSE, FALSE))
    /\ invoked = << <<"onRefresh">> >>
    /\ opinions = <<>>
    /\ studentInfo.goodSubjects # <<>>
    /\ lastRequest = Null
    /\ pending = {}
    /\ error = Null

\* this step is a run of handleReset: by Esc
ResetRuns == \E e \in AllKeyEvents : e.key = KEY_ESCAPE /\ KeyDown(e)

\* C13: reset, by Esc, from any state restores the whole form to its initial
\* values (name and characteristics empty, the three selection lists empty,
\* targetLength 75, modelName gemini-2.5-flash), empties the opinions and
\* clears the error; isLoading is left unchanged.
C13_ResetRestoresForm ==
    [][ ResetRuns =>
            /\ studentInfo' = [name |-> <<>>,
                               goodSubjects |-> <<>>,
                               weakSubjects |-> <<>>,
                               personality |-> <<>>,
                               characteristics |-> <<>>,
                               targetLength |-> 75,
                               modelName |-> "gemini-2.5-flash"]
            /\ opinions' = <<>>
            /\ error' = Null
            /\ isLoading' = isLoading ]_vars

\* Esc was pressed while a request carrying a form changed in all its seven
\* fields was loading: the form is as at the start and the loading goes on
C13_Witness ==
    /\ lastKey = Some(KeyEvent(KEY_ESCAPE, FALSE, FALSE, FALSE, FALSE))
    /\ studentInfo = initialStudentInfo
    /\ opinions = <<>>
    /\ error = Null
    /\ isLoading
    /\ pending # {}
    /\ lastRequest # Null
    /\ lastRequest[1].name = Some(<<"a">>)
    /\ lastRequest[1].characteristics = Some(<<"b">>)
    /\ lastRequest[1].good_subjects # <<>>
    /\ lastRequest[1].weak_subjects # <<>>
    /\ lastRequest[1].personality # <<>>
    /\ lastRequest[1].target_length = 60
    /\ lastRequest[1].model_name = "gemini-2.5-pro"

\* C14: isLoading is true in every state in which a generate request is in
\* flight, under any interleaving of clicks on the generate button,
\* Ctrl/Cmd+Enter, Ctrl/Cmd+R and arrivals of responses: isLoading is false
\* only when no request is outstanding.
C14_LoadingWhileInFlight == pending # {} => isLoading

\* Ctrl+Enter was pressed while a request was loading and one of the two
\* requests was then answered: the other is in flight and isLoading is false
C14_Witness ==
    /\ lastKey = Some(KeyEvent(KEY_ENTER, TRUE, FALSE, FALSE, FALSE))
    /\ Cardinality(pending) = 1
    /\ ~isLoading
    /\ Len(opinions) = 5

====
